---- MODULE Spec2Model ----
(***************************************************************************)
(* NewlineJSON: line-by-line JSON reading and writing.                     *)
(*                                                                         *)
(* The model covers the Reader and Writer of newlinejson/deprecated.py     *)
(* (identical to the ones of newlinejson.py) and of newlinejson/core.py,   *)
(* the file object they wrap, and the stream lifecycle (mode, closed,      *)
(* close, flush) of the object returned by newlinejson.open().             *)
(*                                                                         *)
(* Spec is an object in use: next(), write(), close(), flush(), iter().    *)
(* SpecIter is a `for` loop over a Reader.  SpecApi is one module-level    *)
(* call (open, Reader(...), load, loads, dump, dumps) and the reads that   *)
(* follow it.  SpecReader is a Reader made with any fail_val, empty_val    *)
(* and skip_lines and then read; SpecFlush a Writer on something that can  *)
(* or cannot be flushed; SpecCodec the module-level JSON being reassigned  *)
(* around a constructor; SpecThreads two threads calling next() on one     *)
(* Reader, bytecode by bytecode.                                           *)
(*                                                                         *)
(* Text is a sequence of characters, a file is its text plus the offset of *)
(* the line iterator, and the JSON library is a small codec over the       *)
(* values used by the tests: dumps and loads are computed on the text.     *)
(***************************************************************************)
EXTENDS Integers, Sequences, FiniteSets, TLC

\* ------------------------------------------------------------------ bounds
MaxLines == 2
MaxCalls == 3
MaxAppendLines == 1
MaxSkip == 2
MaxRecords == 2

\* ------------------------------------------------------------------ values
\* A decoded JSON object {"a": n}.
Rec(n) == [kind |-> "dict", a |-> n]
\* None: the default of fail_val and empty_val, and the decoding of null.
NoneVal == [kind |-> "None", a |-> 0]
\* A value json.dumps cannot serialise (the tests write a module or a type).
Unserializable == [kind |-> "module", a |-> 0]
Records == {Rec(1), Rec(2)}
\* Values the tests pass as fail_val and empty_val: 1 and ''.
One == [kind |-> "int", a |-> 1]
EmptyStr == [kind |-> "str", a |-> 0]
FailVals == {NoneVal, One}
EmptyVals == {NoneVal, EmptyStr}
WriteValues == Records \cup {Unserializable}

\* Exceptions, named by the class the except clauses match on and by origin.
NoExc == "none"
DecodeError == "ValueError:decode"
ClosedFileError == "ValueError:closed-file"
EncodeError == "TypeError:encode"
StopIteration == "StopIteration"
InvalidState == "InvalidState"
InvalidArgument == "ValueError:argument"
UnsupportedSource == "TypeError:source"
\* A call that does not come back: its loop has no last iteration.
NoReturn == "no-return"

\* Variant of the match of `except ValueError` that also catches the end of
\* the iteration, as a bare `except` would.
IsValueError_AlsoStop(e) == e \in {DecodeError, ClosedFileError, StopIteration}

\* isinstance(e, ValueError): what `except ValueError` catches.
IsValueError(e) == e \in {DecodeError, ClosedFileError}
\* isinstance(e, Exception): what `except Exception` catches.
IsException(e) == e # NoExc

\* ------------------------------------------------------------------- codec
LineSep == <<"\n">>
CustomDelim == <<"|">>
Delimiters == {LineSep, CustomDelim}
Whitespace == {" ", "\n"}
Digits == <<"1", "2">>
NullText == <<"n", "u", "l", "l">>

\* Variant of json.dumps that writes the first digit for every object.
dumps_FirstDigit(v) ==
    IF v.kind = "dict" THEN [ok |-> TRUE, text |-> <<"{", "a", ":", Digits[1], "}">>]
    ELSE IF v.kind = "None" THEN [ok |-> TRUE, text |-> NullText]
    ELSE [ok |-> FALSE, text |-> <<>>]

\* json.dumps(line): the text of the value, or a TypeError.
dumps(v) ==
    IF v.kind = "dict" THEN [ok |-> TRUE, text |-> <<"{", "a", ":", Digits[v.a], "}">>]
    ELSE IF v.kind = "None" THEN [ok |-> TRUE, text |-> NullText]
    ELSE [ok |-> FALSE, text |-> <<>>]

\* json.loads(row): the value of the text, or a ValueError.
loads(t) ==
    IF /\ Len(t) = 5
       /\ t[1] = "{" /\ t[2] = "a" /\ t[3] = ":" /\ t[5] = "}"
       /\ \E d \in 1..Len(Digits) : t[4] = Digits[d]
    THEN [ok |-> TRUE, val |-> Rec(CHOOSE d \in 1..Len(Digits) : t[4] = Digits[d])]
    ELSE IF t = NullText THEN [ok |-> TRUE, val |-> NoneVal]
    ELSE [ok |-> FALSE, val |-> NoneVal]

\* str.strip(): drop leading and trailing whitespace.
RECURSIVE LStrip(_)
LStrip(s) == IF s # <<>> /\ Head(s) \in Whitespace THEN LStrip(Tail(s)) ELSE s
RECURSIVE RStrip(_)
RStrip(s) ==
    IF s # <<>> /\ s[Len(s)] \in Whitespace THEN RStrip(SubSeq(s, 1, Len(s) - 1)) ELSE s
Strip(s) == RStrip(LStrip(s))

\* -------------------------------------------------------------------- file
\* next(f) on a text file: the characters after offset p up to and including
\* the next newline, or up to the end of the text.
FileNext(c, p) ==
    LET nl == {i \in (p + 1)..Len(c) : c[i] = "\n"}
        e  == IF nl = {} THEN Len(c) ELSE CHOOSE i \in nl : \A j \in nl : i <= j
    IN  [line |-> SubSeq(c, p + 1, e), end |-> e]

\* os.linesep.join(lines)
RECURSIVE Join(_)
Join(ls) ==
    IF ls = <<>> THEN <<>>
    ELSE IF Len(ls) = 1 THEN ls[1]
    ELSE ls[1] \o LineSep \o Join(Tail(ls))

\* The lines the sources are made of: two records, a malformed line, an
\* empty line and a line of whitespace.
BadLine == <<"[">>
SourceLines == {dumps(Rec(1)).text, dumps(Rec(2)).text, BadLine, <<>>, <<" ">>}
LineLists(n) == UNION {[1..k -> SourceLines] : k \in 0..n}
Sources(n) == {Join(ls) : ls \in LineLists(n)}


\* ------------------------------------------------------------------- state
VARIABLES
    impl,           \* which Reader/Writer: "deprecated" (also newlinejson.py) or "core"
    mode,           \* "r", "w" or "a"
    skip_failures,  \* self.skip_failures
    skip_empty,     \* self.skip_empty
    delimiter,      \* self.delimiter
    content,        \* text of the file object f
    fpos,           \* offset of f's line iterator
    fclosed,        \* f.closed
    closed,         \* the stream was closed
    failures,       \* self._failures
    line_num,       \* self._line_num
    last,           \* outcome of the most recent call
    yields,         \* values returned by the next() calls so far
    written,        \* values of the write() calls that returned True
    chunks,         \* arguments of the f.write calls so far
    wfailed,        \* number of write() calls that did not return True
    calls,          \* number of next() and write() calls so far
    pc,             \* "stream": an object is in use; else the stage of a module-level call
    source,         \* what is handed to open(): "path", "file", "stdin" or "int"
    skip_lines,     \* the skip_lines argument
    line_list,      \* the line_list argument of dump() and dumps()
    result,         \* the list returned by load() or loads()
    fail_val,       \* self.fail_val
    empty_val,      \* self.empty_val
    flushed,        \* how much of content a flush or a close of f has pushed out
    JSON,           \* the module-level JSON of the module the class is defined in
    json_lib_arg,   \* the json_lib argument of the constructor
    json_lib,       \* self.json_lib
    serial,         \* the callers of next() take turns: a call is not interleaved
    lock,           \* the thread whose call is under way when the callers take turns
    th              \* per thread: where it is in Reader.next, and its local values

vars == <<impl, mode, skip_failures, skip_empty, delimiter, content, fpos, fclosed,
          closed, failures, line_num, last, yields, written, chunks, wfailed, calls,
          pc, source, skip_lines, line_list, result, fail_val, empty_val, flushed,
          JSON, json_lib_arg, json_lib, serial, lock, th>>

config == <<impl, mode, skip_failures, skip_empty, delimiter, fail_val, empty_val>>
args == <<source, skip_lines, line_list, json_lib_arg>>
codec == <<JSON, json_lib>>
conc == <<serial, lock, th>>

\* The JSON libraries a module can be told to use; json is the one that
\* `JSON = json` names when the module is imported.
DefaultJSON == "json"
Libraries == {"json", "ujson"}
\* json_lib=None, and self.json_lib before the constructor has run.
NoLib == "None"

\* The threads that share one Reader.
Threads == {1, 2}
\* A thread that is not inside a call of next().
Idle == [pc |-> "idle", row |-> <<>>, reg |-> 0]

\* fail_val=None, empty_val=None
DefaultVals == fail_val = NoneVal /\ empty_val = NoneVal
\* The module as imported, and a constructor that is given no json_lib.
DefaultCodec == JSON = DefaultJSON /\ json_lib_arg = NoLib
\* The object is used by one caller.
OneCaller == serial = TRUE /\ lock = 0 /\ th = [t \in Threads |-> Idle]

Defaults == DefaultVals /\ DefaultCodec /\ OneCaller

NoCall == [op |-> "none", kind |-> "none", val |-> NoneVal, exc |-> NoExc, at |-> -1]

\* ------------------------------------------------------------------ Reader
\* Reader._readline: count the line, pull it from f, strip it.
Reader_readline(c, fp, fcl, ln) ==
    IF fcl THEN [line_num |-> ln + 1, fpos |-> fp, exc |-> ClosedFileError, row |-> <<>>]
    ELSE IF fp >= Len(c)
    THEN [line_num |-> ln + 1, fpos |-> fp, exc |-> StopIteration, row |-> <<>>]
    ELSE LET r == FileNext(c, fp)
         IN  [line_num |-> ln + 1, fpos |-> r.end, exc |-> NoExc, row |-> Strip(r.line)]

\* Variant of the try block that reports every empty line, whatever
\* skip_empty says.
ReaderTry_NoSkip(c, fp, fcl, ln, se) ==
    LET r == Reader_readline(c, fp, fcl, ln)
        d == loads(r.row)
    IN  IF r.exc # NoExc
        THEN [fpos |-> r.fpos, line_num |-> r.line_num, kind |-> "raise",
              val |-> NoneVal, exc |-> r.exc, at |-> -1]
        ELSE IF r.row = <<>>
        THEN [fpos |-> r.fpos, line_num |-> r.line_num, kind |-> "value",
              val |-> empty_val, exc |-> NoExc, at |-> fp]
        ELSE IF d.ok
        THEN [fpos |-> r.fpos, line_num |-> r.line_num, kind |-> "value",
              val |-> d.val, exc |-> NoExc, at |-> fp]
        ELSE [fpos |-> r.fpos, line_num |-> r.line_num, kind |-> "raise",
              val |-> NoneVal, exc |-> DecodeError, at |-> fp]

\* The try block of Reader.next: read a line, skip or report empty ones,
\* decode.  `at` is the offset of the line given to loads.
RECURSIVE ReaderTry(_, _, _, _, _)
ReaderTry(c, fp, fcl, ln, se) ==
    LET r == Reader_readline(c, fp, fcl, ln)
        d == loads(r.row)
    IN  IF r.exc # NoExc
        THEN [fpos |-> r.fpos, line_num |-> r.line_num, kind |-> "raise",
              val |-> NoneVal, exc |-> r.exc, at |-> -1]
        ELSE IF r.row = <<>>
        THEN IF se THEN ReaderTry(c, r.fpos, fcl, r.line_num, se)
             ELSE [fpos |-> r.fpos, line_num |-> r.line_num, kind |-> "value",
                   val |-> empty_val, exc |-> NoExc, at |-> fp]
        ELSE IF d.ok
        THEN [fpos |-> r.fpos, line_num |-> r.line_num, kind |-> "value",
              val |-> d.val, exc |-> NoExc, at |-> fp]
        ELSE [fpos |-> r.fpos, line_num |-> r.line_num, kind |-> "raise",
              val |-> NoneVal, exc |-> DecodeError, at |-> fp]

\* Variant of Reader.next that decodes before it moves on: a line that fails
\* to decode is left in the file.
DeprecatedReaderNext_NoAdvance(c, fp, fcl, ln, nf, sf, se) ==
    LET t == ReaderTry(c, fp, fcl, ln, se)
    IN  IF t.kind = "raise" /\ IsValueError(t.exc)
        THEN IF ~sf
             THEN [fpos |-> fp, line_num |-> t.line_num, failures |-> nf + 1,
                   kind |-> "raise", val |-> NoneVal, exc |-> t.exc, at |-> t.at]
             ELSE [fpos |-> fp, line_num |-> t.line_num, failures |-> nf + 1,
                   kind |-> "value", val |-> fail_val, exc |-> NoExc, at |-> t.at]
        ELSE [fpos |-> t.fpos, line_num |-> t.line_num, failures |-> nf,
              kind |-> t.kind, val |-> t.val, exc |-> t.exc, at |-> t.at]

\* Variant of Reader.next that raises the error again whatever skip_failures
\* says.
DeprecatedReaderNext_RaiseAlways(c, fp, fcl, ln, nf, sf, se) ==
    LET t == ReaderTry(c, fp, fcl, ln, se)
    IN  IF t.kind = "raise" /\ IsValueError(t.exc)
        THEN [fpos |-> t.fpos, line_num |-> t.line_num, failures |-> nf + 1,
              kind |-> "raise", val |-> NoneVal, exc |-> t.exc, at |-> t.at]
        ELSE [fpos |-> t.fpos, line_num |-> t.line_num, failures |-> nf,
              kind |-> t.kind, val |-> t.val, exc |-> t.exc, at |-> t.at]

\* Reader.next of deprecated.py and newlinejson.py: a ValueError of the try
\* block is counted, then raised again or replaced by fail_val.
DeprecatedReaderNext(c, fp, fcl, ln, nf, sf, se) ==
    LET t == ReaderTry(c, fp, fcl, ln, se)
    IN  IF t.kind = "raise" /\ IsValueError(t.exc)
        THEN IF ~sf
             THEN [fpos |-> t.fpos, line_num |-> t.line_num, failures |-> nf + 1,
                   kind |-> "raise", val |-> NoneVal, exc |-> t.exc, at |-> t.at]
             ELSE [fpos |-> t.fpos, line_num |-> t.line_num, failures |-> nf + 1,
                   kind |-> "value", val |-> fail_val, exc |-> NoExc, at |-> t.at]
        ELSE [fpos |-> t.fpos, line_num |-> t.line_num, failures |-> nf,
              kind |-> t.kind, val |-> t.val, exc |-> t.exc, at |-> t.at]

\* Variant of Reader.next of core.py that returns None for a line that
\* fails, whatever fail_val is.
CoreReaderNext_NoneForFailure(c, fp, fcl, ln, nf, sf, se) ==
    LET t == ReaderTry(c, fp, fcl, ln, se)
    IN  IF t.kind = "raise" /\ IsValueError(t.exc)
        THEN IF ~sf
             THEN [fpos |-> t.fpos, line_num |-> t.line_num, failures |-> nf,
                   kind |-> "raise", val |-> NoneVal, exc |-> t.exc, at |-> t.at]
             ELSE [fpos |-> t.fpos, line_num |-> t.line_num, failures |-> nf,
                   kind |-> "value", val |-> NoneVal, exc |-> NoExc, at |-> t.at]
        ELSE [fpos |-> t.fpos, line_num |-> t.line_num, failures |-> nf,
              kind |-> t.kind, val |-> t.val, exc |-> t.exc, at |-> t.at]

\* Reader.next of core.py: the same without the failure counter.
CoreReaderNext(c, fp, fcl, ln, nf, sf, se) ==
    LET t == ReaderTry(c, fp, fcl, ln, se)
    IN  IF t.kind = "raise" /\ IsValueError(t.exc)
        THEN IF ~sf
             THEN [fpos |-> t.fpos, line_num |-> t.line_num, failures |-> nf,
                   kind |-> "raise", val |-> NoneVal, exc |-> t.exc, at |-> t.at]
             ELSE [fpos |-> t.fpos, line_num |-> t.line_num, failures |-> nf,
                   kind |-> "value", val |-> fail_val, exc |-> NoExc, at |-> t.at]
        ELSE [fpos |-> t.fpos, line_num |-> t.line_num, failures |-> nf,
              kind |-> t.kind, val |-> t.val, exc |-> t.exc, at |-> t.at]

\* ------------------------------------------------------------------ Writer
\* Variant of Writer.write that starts the failure count again after a
\* line was written.
DeprecatedWriterWrite_ResetFailures(c, fcl, ln, nf, sf, delim, v) ==
    LET e == dumps(v)
        linestring == e.text \o delim
        exc == IF ~e.ok THEN EncodeError ELSE IF fcl THEN ClosedFileError ELSE NoExc
    IN  IF IsException(exc)
        THEN [content |-> c, line_num |-> ln, failures |-> nf + 1,
              kind |-> IF ~sf THEN "raise" ELSE "false",
              exc |-> IF ~sf THEN exc ELSE NoExc, out |-> <<>>]
        ELSE [content |-> c \o linestring, line_num |-> ln + 1, failures |-> 0,
              kind |-> "true", exc |-> NoExc, out |-> <<linestring>>]

\* Variant of Writer.write that counts a failure only after the check of
\* skip_failures, so a raised failure is not counted.
DeprecatedWriterWrite_CountAfterRaise(c, fcl, ln, nf, sf, delim, v) ==
    LET e == dumps(v)
        linestring == e.text \o delim
        exc == IF ~e.ok THEN EncodeError ELSE IF fcl THEN ClosedFileError ELSE NoExc
    IN  IF IsException(exc)
        THEN [content |-> c, line_num |-> ln, failures |-> IF ~sf THEN nf ELSE nf + 1,
              kind |-> IF ~sf THEN "raise" ELSE "false",
              exc |-> IF ~sf THEN exc ELSE NoExc, out |-> <<>>]
        ELSE [content |-> c \o linestring, line_num |-> ln + 1, failures |-> nf,
              kind |-> "true", exc |-> NoExc, out |-> <<linestring>>]

\* Variant of Writer.write that writes the record and the delimiter with two
\* f.write calls.
DeprecatedWriterWrite_TwoWrites(c, fcl, ln, nf, sf, delim, v) ==
    LET e == dumps(v)
        linestring == e.text \o delim
        exc == IF ~e.ok THEN EncodeError ELSE IF fcl THEN ClosedFileError ELSE NoExc
    IN  IF IsException(exc)
        THEN [content |-> c, line_num |-> ln, failures |-> nf + 1,
              kind |-> IF ~sf THEN "raise" ELSE "false",
              exc |-> IF ~sf THEN exc ELSE NoExc, out |-> <<>>]
        ELSE [content |-> c \o linestring, line_num |-> ln + 1, failures |-> nf,
              kind |-> "true", exc |-> NoExc, out |-> <<e.text, delim>>]

\* Writer.write of deprecated.py and newlinejson.py: encode, add the
\* delimiter, hand the text to f.write in one call; any exception of the try
\* block is counted, then raised again or turned into False.
DeprecatedWriterWrite(c, fcl, ln, nf, sf, delim, v) ==
    LET e == dumps(v)
        linestring == e.text \o delim
        exc == IF ~e.ok THEN EncodeError ELSE IF fcl THEN ClosedFileError ELSE NoExc
    IN  IF IsException(exc)
        THEN [content |-> c, line_num |-> ln, failures |-> nf + 1,
              kind |-> IF ~sf THEN "raise" ELSE "false",
              exc |-> IF ~sf THEN exc ELSE NoExc, out |-> <<>>]
        ELSE [content |-> c \o linestring, line_num |-> ln + 1, failures |-> nf,
              kind |-> "true", exc |-> NoExc, out |-> <<linestring>>]

\* Variant of Writer.write of core.py that leaves the delimiter out.
CoreWriterWrite_NoDelimiter(c, fcl, ln, nf, sf, delim, v) ==
    LET e == dumps(v)
        linestring == e.text
        exc == IF ~e.ok THEN EncodeError ELSE IF fcl THEN ClosedFileError ELSE NoExc
    IN  IF IsException(exc)
        THEN [content |-> c, line_num |-> ln, failures |-> nf,
              kind |-> IF ~sf THEN "raise" ELSE "false",
              exc |-> IF ~sf THEN exc ELSE NoExc, out |-> <<>>]
        ELSE [content |-> c \o linestring, line_num |-> ln + 1, failures |-> nf,
              kind |-> "true", exc |-> NoExc, out |-> <<linestring>>]

\* Variant of Writer.write of core.py that counts the line before it is
\* encoded and written.
CoreWriterWrite_CountFirst(c, fcl, ln, nf, sf, delim, v) ==
    LET e == dumps(v)
        linestring == e.text \o delim
        exc == IF ~e.ok THEN EncodeError ELSE IF fcl THEN ClosedFileError ELSE NoExc
    IN  IF IsException(exc)
        THEN [content |-> c, line_num |-> ln + 1, failures |-> nf,
              kind |-> IF ~sf THEN "raise" ELSE "false",
              exc |-> IF ~sf THEN exc ELSE NoExc, out |-> <<>>]
        ELSE [content |-> c \o linestring, line_num |-> ln + 1, failures |-> nf,
              kind |-> "true", exc |-> NoExc, out |-> <<linestring>>]

\* Writer.write of core.py: the same without the failure counter.
CoreWriterWrite(c, fcl, ln, nf, sf, delim, v) ==
    LET e == dumps(v)
        linestring == e.text \o delim
        exc == IF ~e.ok THEN EncodeError ELSE IF fcl THEN ClosedFileError ELSE NoExc
    IN  IF IsException(exc)
        THEN [content |-> c, line_num |-> ln, failures |-> nf,
              kind |-> IF ~sf THEN "raise" ELSE "false",
              exc |-> IF ~sf THEN exc ELSE NoExc, out |-> <<>>]
        ELSE [content |-> c \o linestring, line_num |-> ln + 1, failures |-> nf,
              kind |-> "true", exc |-> NoExc, out |-> <<linestring>>]

\* ------------------------------------------------------------------ stream
\* Variant of the state check that does not look at closed.
StreamGuard_IgnoreClosed(op, md, cl) ==
    IF op = "read" /\ md # "r" THEN InvalidState
    ELSE IF op = "write" /\ md \notin {"w", "a"} THEN InvalidState
    ELSE NoExc

\* Variant of the state check that does not look at the mode.
StreamGuard_IgnoreMode(op, md, cl) ==
    IF cl THEN InvalidState ELSE NoExc

\* The state check of a read or write call on the stream: closed streams
\* and calls against the mode are refused before anything else happens.
StreamGuard(op, md, cl) ==
    IF cl THEN InvalidState
    ELSE IF op = "read" /\ md # "r" THEN InvalidState
    ELSE IF op = "write" /\ md \notin {"w", "a"} THEN InvalidState
    ELSE NoExc

\* A Reader (mode "r") or Writer on an open file, before its first call.
StreamState ==
    /\ impl \in {"deprecated", "core"}
    /\ mode \in {"r", "w", "a"}
    /\ skip_failures \in BOOLEAN
    /\ skip_empty \in BOOLEAN
    /\ delimiter \in Delimiters
    /\ content \in (IF mode = "r" THEN Sources(MaxLines)
                    ELSE IF mode = "a" THEN Sources(MaxAppendLines)
                    ELSE {<<>>})
    /\ (mode # "r" => skip_empty)
    /\ (mode = "r" => delimiter = LineSep)
    /\ fpos = 0
    /\ fclosed = FALSE
    /\ closed = FALSE
    /\ failures = 0
    /\ line_num = 0
    /\ last = NoCall
    /\ yields = <<>>
    /\ written = <<>>
    /\ chunks = <<>>
    /\ wfailed = 0
    /\ calls = 0
    /\ pc = "stream"
    /\ skip_lines = 0
    /\ line_list = <<>>
    /\ result = <<>>
    /\ flushed = Len(content)

Init ==
    /\ StreamState
    /\ source = "file"
    /\ Defaults
    /\ json_lib = DefaultJSON

\* next(stream)
Read ==
    /\ calls < MaxCalls
    /\ calls' = calls + 1
    /\ IF StreamGuard("read", mode, closed) # NoExc
       THEN /\ last' = [op |-> "read", kind |-> "raise", val |-> NoneVal,
                        exc |-> StreamGuard("read", mode, closed), at |-> -1]
            /\ UNCHANGED <<fpos, line_num, failures, yields>>
       ELSE \E r \in {IF impl = "deprecated"
                      THEN DeprecatedReaderNext(content, fpos, fclosed, line_num, failures,
                                                skip_failures, skip_empty)
                      ELSE CoreReaderNext(content, fpos, fclosed, line_num, failures,
                                          skip_failures, skip_empty)} :
                /\ fpos' = r.fpos
                /\ line_num' = r.line_num
                /\ failures' = r.failures
                /\ last' = [op |-> "read", kind |-> r.kind, val |-> r.val,
                            exc |-> r.exc, at |-> r.at]
                /\ yields' = IF r.kind = "value" THEN Append(yields, r.val) ELSE yields
    /\ UNCHANGED <<config, args, codec, conc, flushed, pc, result, content, fclosed, closed, written, chunks,
                   wfailed>>

\* stream.write(v)
Write(v) ==
    /\ calls < MaxCalls
    /\ calls' = calls + 1
    /\ LET g == StreamGuard("write", mode, closed)
           w == IF impl = "deprecated"
                THEN DeprecatedWriterWrite(content, fclosed, line_num, failures,
                                           skip_failures, delimiter, v)
                ELSE CoreWriterWrite(content, fclosed, line_num, failures,
                                     skip_failures, delimiter, v)
       IN  IF g # NoExc
           THEN /\ last' = [op |-> "write", kind |-> "raise", val |-> v,
                            exc |-> g, at |-> -1]
                /\ wfailed' = wfailed + 1
                /\ UNCHANGED <<content, line_num, failures, written, chunks>>
           ELSE /\ content' = w.content
                /\ line_num' = w.line_num
                /\ failures' = w.failures
                /\ last' = [op |-> "write", kind |-> w.kind, val |-> v,
                            exc |-> w.exc, at |-> -1]
                /\ chunks' = chunks \o w.out
                /\ written' = IF w.kind = "true" THEN Append(written, v) ELSE written
                /\ wfailed' = IF w.kind = "true" THEN wfailed ELSE wfailed + 1
    /\ UNCHANGED <<config, args, codec, conc, flushed, pc, result, fpos, fclosed, closed, yields>>

\* Variant of close that refuses a stream that is closed already.
StreamClose_RaiseWhenClosed(cl, fcl) ==
    IF cl THEN [closed |-> TRUE, fclosed |-> fcl, kind |-> "raise", exc |-> InvalidState]
    ELSE [closed |-> TRUE, fclosed |-> TRUE, kind |-> "closed", exc |-> NoExc]

\* What close does: the first call marks the stream closed and closes the
\* file it wraps, a call on a closed stream does nothing.
StreamClose(cl, fcl) ==
    IF cl THEN [closed |-> TRUE, fclosed |-> fcl, kind |-> "noop", exc |-> NoExc]
    ELSE [closed |-> TRUE, fclosed |-> TRUE, kind |-> "closed", exc |-> NoExc]

\* stream.close()
Close ==
    /\ LET r == StreamClose(closed, fclosed)
       IN  /\ closed' = r.closed
           /\ fclosed' = r.fclosed
           /\ flushed' = IF r.fclosed /\ ~fclosed THEN Len(content) ELSE flushed
           /\ last' = [op |-> "close", kind |-> r.kind, val |-> NoneVal, exc |-> r.exc,
                       at |-> -1]
    /\ UNCHANGED <<config, args, codec, conc, pc, result, content, fpos, failures, line_num, yields,
                   written, chunks, wfailed, calls>>

\* Variant of __iter__ that starts the file again.
Iter_Rewind ==
    /\ mode = "r"
    /\ fpos' = 0
    /\ last' = [op |-> "iter", kind |-> "none", val |-> NoneVal, exc |-> NoExc, at |-> -1]
    /\ UNCHANGED <<config, args, codec, conc, flushed, pc, result, content, fclosed, closed, failures,
                   line_num, yields, written, chunks, wfailed, calls>>

\* iter(reader): Reader.__iter__ returns the Reader itself.
Iter ==
    /\ mode = "r"
    /\ last' = [op |-> "iter", kind |-> "none", val |-> NoneVal, exc |-> NoExc, at |-> -1]
    /\ UNCHANGED <<config, args, codec, conc, flushed, pc, result, content, fpos, fclosed, closed, failures,
                   line_num, yields, written, chunks, wfailed, calls>>

\* Whether the object the stream wraps has a flush() method: files, paths
\* and stdin do, "obj" is an object with nothing but write() or iteration.
Flushable(src) == src # "obj"

\* Variant of flush that does not reach the file.
StreamFlush_NoForward(src, fcl, c, fl) == fl

\* What flush pushes out: all of the text when the call is forwarded to an
\* open file, nothing more than before otherwise.
StreamFlush(src, fcl, c, fl) ==
    IF Flushable(src) /\ ~fcl THEN Len(c) ELSE fl

\* stream.flush(): forwarded to the object the stream wraps when it can be
\* flushed; the call returns nothing and raises nothing.
Flush ==
    /\ flushed' = StreamFlush(source, fclosed, content, flushed)
    /\ last' = [op |-> "flush", kind |-> "none", val |-> NoneVal, exc |-> NoExc, at |-> -1]
    /\ UNCHANGED <<config, args, codec, conc, pc, result, content, fpos, fclosed, closed, failures,
                   line_num, yields, written, chunks, wfailed, calls>>

\* f.close() by the owner of the file object, e.g. at the end of the
\* `with StringIO() as f` block the Reader or Writer was built in.
FileClose ==
    /\ ~fclosed
    /\ fclosed' = TRUE
    /\ flushed' = Len(content)
    /\ UNCHANGED <<config, args, codec, conc, pc, result, content, fpos, closed, failures, line_num,
                   last, yields, written, chunks, wfailed, calls>>

Next ==
    \/ Read
    \/ \E v \in WriteValues : Write(v)
    \/ Close
    \/ Flush
    \/ FileClose
    \/ Iter

Spec == Init /\ [][Next]_vars

TypeOK ==
    /\ failures \in 0..MaxCalls
    /\ calls \in 0..MaxCalls
    /\ fpos \in 0..Len(content)

\* --------------------------------------------------------------- iteration
\* `for row in reader` over an open file: next() is called again and again,
\* until a call raises.  The loop is the only thing running, so a call that
\* can be made is made.
IterInit == Init /\ mode = "r"
\* The loop calls next() as long as no call has raised.
IterCall == last.kind # "raise" /\ calls < MaxCalls /\ calls' = calls + 1
IterNext == IterCall /\ Read
SpecIter == IterInit /\ [][IterNext]_vars /\ WF_calls(IterCall)

\* ------------------------------------------------------------ construction
\* Variant of Reader.__init__ of core.py that leaves the skip_lines loop out.
CoreReaderInit_NoSkip(c, fp, fcl, ln, k) ==
    [fpos |-> fp, line_num |-> ln, failures |-> 0, exc |-> NoExc]

\* Variant of the skip loop of core.py that ends quietly at the end of the
\* file.
RECURSIVE CoreReaderInit_StopAtEnd(_, _, _, _, _)
CoreReaderInit_StopAtEnd(c, fp, fcl, ln, k) ==
    IF k <= 0 THEN [fpos |-> fp, line_num |-> ln, failures |-> 0, exc |-> NoExc]
    ELSE IF fcl THEN [fpos |-> fp, line_num |-> ln + 1, failures |-> 0,
                      exc |-> ClosedFileError]
    ELSE IF fp >= Len(c) THEN [fpos |-> fp, line_num |-> ln, failures |-> 0,
                               exc |-> NoExc]
    ELSE CoreReaderInit_StopAtEnd(c, FileNext(c, fp).end, fcl, ln + 1, k - 1)

\* The end of Reader.__init__ of core.py, `for i in range(skip_lines):
\* self._line_num += 1; next(self._f)`: k raw lines are pulled from f and
\* nothing is decoded; an exception of next(f) leaves the constructor.
RECURSIVE CoreReaderInit(_, _, _, _, _)
CoreReaderInit(c, fp, fcl, ln, k) ==
    IF k <= 0 THEN [fpos |-> fp, line_num |-> ln, failures |-> 0, exc |-> NoExc]
    ELSE IF fcl THEN [fpos |-> fp, line_num |-> ln + 1, failures |-> 0,
                      exc |-> ClosedFileError]
    ELSE IF fp >= Len(c) THEN [fpos |-> fp, line_num |-> ln + 1, failures |-> 0,
                               exc |-> StopIteration]
    ELSE CoreReaderInit(c, FileNext(c, fp).end, fcl, ln + 1, k - 1)

\* Variant of Reader.__init__ of deprecated.py that skips with next(f), as
\* its docstring says, instead of self.next().
DeprecatedReaderInit_RawSkip(c, fp, fcl, ln, nf, sf, se, k) ==
    CoreReaderInit(c, fp, fcl, ln, k)

\* The end of Reader.__init__ of deprecated.py and newlinejson.py,
\* `for i in range(skip_lines): self.next()`: k calls of next() whose values
\* are dropped; an exception of next() leaves the constructor.  (r, the
\* outcome of one call, is bound as the element of a one-element set.)
RECURSIVE DeprecatedReaderInit(_, _, _, _, _, _, _, _)
DeprecatedReaderInit(c, fp, fcl, ln, nf, sf, se, k) ==
    IF k <= 0 THEN [fpos |-> fp, line_num |-> ln, failures |-> nf, exc |-> NoExc]
    ELSE CHOOSE y \in
           {IF r.kind = "raise"
            THEN [fpos |-> r.fpos, line_num |-> r.line_num, failures |-> r.failures,
                  exc |-> r.exc]
            ELSE DeprecatedReaderInit(c, r.fpos, fcl, r.line_num, r.failures, sf, se, k - 1) :
            r \in {DeprecatedReaderNext(c, fp, fcl, ln, nf, sf, se)}} : TRUE

\* Reader(f, skip_lines=k, ...) on a file at its start.
ReaderInit(im, c, fcl, sf, se, k) ==
    IF im = "deprecated" THEN DeprecatedReaderInit(c, 0, fcl, 0, 0, sf, se, k)
    ELSE CoreReaderInit(c, 0, fcl, 0, k)

\* The modes of a stream, and one that is none of them.
Modes == {"r", "w", "a"}
BadMode == "rb"

\* The check of the mode argument when a stream is constructed.
ModeCheck(md) == IF md \in Modes THEN NoExc ELSE InvalidArgument

\* ------------------------------------------------------------ bulk wrappers
\* Variant of the loop of dump and dumps that ends with the first write
\* that does not return True.
RECURSIVE WriteAll_UntilFalse(_, _, _, _, _, _, _, _)
WriteAll_UntilFalse(im, c, fcl, ln, nf, sf, delim, ls) ==
    IF ls = <<>>
    THEN [content |-> c, line_num |-> ln, failures |-> nf, exc |-> NoExc,
          written |-> <<>>, out |-> <<>>, nfalse |-> 0]
    ELSE LET w == IF im = "deprecated"
                  THEN DeprecatedWriterWrite(c, fcl, ln, nf, sf, delim, Head(ls))
                  ELSE CoreWriterWrite(c, fcl, ln, nf, sf, delim, Head(ls))
         IN  IF w.kind # "true"
             THEN [content |-> w.content, line_num |-> w.line_num, failures |-> w.failures,
                   exc |-> w.exc, written |-> <<>>, out |-> <<>>, nfalse |-> 1]
             ELSE LET r == WriteAll_UntilFalse(im, w.content, fcl, w.line_num, w.failures,
                                               sf, delim, Tail(ls))
                  IN  [r EXCEPT !.written = <<Head(ls)>> \o @, !.out = w.out \o @]

\* `for line in line_list: writer.write(line)` of dump and dumps: the first
\* write that raises ends the loop; `written` are the values whose write
\* returned True and `out` the arguments of the f.write calls.
RECURSIVE WriteAll(_, _, _, _, _, _, _, _)
WriteAll(im, c, fcl, ln, nf, sf, delim, ls) ==
    IF ls = <<>>
    THEN [content |-> c, line_num |-> ln, failures |-> nf, exc |-> NoExc,
          written |-> <<>>, out |-> <<>>, nfalse |-> 0]
    ELSE LET w == IF im = "deprecated"
                  THEN DeprecatedWriterWrite(c, fcl, ln, nf, sf, delim, Head(ls))
                  ELSE CoreWriterWrite(c, fcl, ln, nf, sf, delim, Head(ls))
         IN  IF w.kind = "raise"
             THEN [content |-> w.content, line_num |-> w.line_num, failures |-> w.failures,
                   exc |-> w.exc, written |-> <<>>, out |-> <<>>, nfalse |-> 1]
             ELSE LET r == WriteAll(im, w.content, fcl, w.line_num, w.failures, sf, delim,
                                    Tail(ls))
                  IN  [r EXCEPT !.written = (IF w.kind = "true" THEN <<Head(ls)>> ELSE <<>>) \o @,
                                !.out = w.out \o @,
                                !.nfalse = (IF w.kind = "true" THEN 0 ELSE 1) + @]

\* Variant of the list comprehension of load and loads that stops after the
\* first value.
Drain_FirstOnly(im, c, fp, fcl, ln, nf, sf, se) ==
    LET r == IF im = "deprecated" THEN DeprecatedReaderNext(c, fp, fcl, ln, nf, sf, se)
             ELSE CoreReaderNext(c, fp, fcl, ln, nf, sf, se)
    IN  [fpos |-> r.fpos, line_num |-> r.line_num, failures |-> r.failures,
         exc |-> (IF r.kind = "raise" /\ r.exc # StopIteration THEN r.exc ELSE NoExc),
         list |-> IF r.kind = "value" THEN <<r.val>> ELSE <<>>]

\* `[line for line in reader]` of load and loads: next() is called until it
\* raises; StopIteration ends the list, any other exception leaves the call.
\* On a closed file with skip_failures=True every next() returns fail_val
\* (see C8) and the loop has no end.  (r is the outcome of one call and d
\* the rest of the list, each bound as the element of a one-element set.)
RECURSIVE Drain(_, _, _, _, _, _, _, _)
Drain(im, c, fp, fcl, ln, nf, sf, se) ==
    IF fcl /\ sf
    THEN [fpos |-> fp, line_num |-> ln, failures |-> nf, exc |-> NoReturn, list |-> <<>>]
    ELSE CHOOSE y \in
           {IF r.kind = "raise"
            THEN [fpos |-> r.fpos, line_num |-> r.line_num, failures |-> r.failures,
                  exc |-> (IF r.exc = StopIteration THEN NoExc ELSE r.exc), list |-> <<>>]
            ELSE CHOOSE z \in
                   {[d EXCEPT !.list = IF d.exc = NoExc THEN <<r.val>> \o @ ELSE <<>>] :
                    d \in {Drain(im, c, r.fpos, fcl, r.line_num, r.failures, sf, se)}} : TRUE :
            r \in {IF im = "deprecated"
                   THEN DeprecatedReaderNext(c, fp, fcl, ln, nf, sf, se)
                   ELSE CoreReaderNext(c, fp, fcl, ln, nf, sf, se)}} : TRUE

\* -------------------------------------------------------- module-level calls
\* The values handed to dump and dumps, and the lists made of them.
DumpValues == WriteValues \cup {NoneVal}
RecordLists(n) == UNION {[1..k -> DumpValues] : k \in 0..n}

\* What open() can be given: a path, a file object, the "-" that stands for
\* stdin or stdout, or something that is none of them (the tests pass 1).
SourceKinds == {"path", "file", "stdin", "int"}

\* Variant of the checks of open() that accepts any object as the source.
OpenErrors_AnySource(src, md) ==
    IF md \notin Modes THEN {InvalidArgument} ELSE {}

\* The checks of open(): the exceptions the call can end with.  When both the
\* source and the mode are wrong, which of the two is reported is not fixed.
OpenErrors(src, md) ==
    (IF src = "int" THEN {UnsupportedSource} ELSE {})
    \cup (IF md \notin Modes THEN {InvalidArgument} ELSE {})

\* The outcome of a module-level call or of a constructor.
ApiLast(op, exc) ==
    [op |-> op, kind |-> IF exc = NoExc THEN "none" ELSE "raise", val |-> NoneVal,
     exc |-> exc, at |-> -1]

\* The state before a module-level call: the arguments it will be given.
\* Either a file to read, or a list to write to an empty file, or the
\* arguments of open().
CallState ==
    /\ impl \in {"deprecated", "core"}
    /\ skip_failures \in BOOLEAN
    /\ \/ /\ mode = "r" /\ source = "file"
          /\ skip_empty \in BOOLEAN /\ delimiter = LineSep
          /\ content \in Sources(MaxLines) /\ fclosed \in BOOLEAN
          /\ skip_lines \in -1..MaxSkip /\ line_list = <<>>
       \/ /\ mode = "w" /\ source = "file"
          /\ skip_empty = TRUE /\ delimiter \in Delimiters
          /\ content = <<>> /\ fclosed \in BOOLEAN
          /\ skip_lines = 0 /\ line_list \in RecordLists(MaxRecords)
       \/ /\ mode \in Modes \cup {BadMode} /\ source \in SourceKinds
          /\ skip_empty = TRUE /\ delimiter = LineSep
          /\ content = dumps(Rec(1)).text \o LineSep /\ fclosed = FALSE
          /\ skip_lines = 0 /\ line_list = <<>>
    /\ pc = "call"
    /\ fpos = 0
    /\ closed = FALSE
    /\ failures = 0
    /\ line_num = 0
    /\ last = NoCall
    /\ yields = <<>>
    /\ written = <<>>
    /\ chunks = <<>>
    /\ wfailed = 0
    /\ calls = 0
    /\ result = <<>>
    /\ flushed = Len(content)
    /\ json_lib = NoLib

ApiInit == CallState /\ Defaults

\* self.json_lib as the constructors set it.  The Readers and the Writer of
\* deprecated.py test `json_lib is None` and read the module's JSON when the
\* constructor runs; the Writer of core.py declares `json_lib=JSON`, a
\* default that is evaluated once, when the module is imported.
InitJsonLib(im, md, arg, J) ==
    IF arg # NoLib THEN arg
    ELSE IF im = "core" /\ md # "r" THEN DefaultJSON
    ELSE J

\* Reader.__init__ for mode "r", Writer.__init__ for the other modes: the
\* counters start at 0 and the Reader skips its lines.
StreamInit(md) ==
    IF md = "r"
    THEN ReaderInit(impl, content, fclosed, skip_failures, skip_empty, skip_lines)
    ELSE [fpos |-> fpos, line_num |-> 0, failures |-> 0, exc |-> NoExc]

\* open(source, mode): the source and the mode are checked, then the stream
\* is made on the file and returned.
Open ==
    /\ pc = "call"
    /\ IF OpenErrors(source, mode) = {}
       THEN LET r == StreamInit(mode)
            IN  /\ last' = ApiLast("open", r.exc)
                /\ pc' = IF r.exc = NoExc THEN "stream" ELSE "raised"
                /\ fpos' = r.fpos
                /\ line_num' = r.line_num
                /\ failures' = r.failures
                /\ json_lib' = InitJsonLib(impl, mode, json_lib_arg, JSON)
       ELSE /\ \E e \in OpenErrors(source, mode) : last' = ApiLast("open", e)
            /\ pc' = "raised"
            /\ UNCHANGED <<fpos, line_num, failures, json_lib>>
    /\ UNCHANGED <<config, args, JSON, conc, flushed, content, fclosed, closed, yields, written, chunks,
                   wfailed, calls, result>>

\* Reader(f, skip_lines=..., ...) or Writer(f, ...), after the check of the
\* mode the stream is made with.
Construct ==
    /\ pc = "call" /\ source = "file"
    /\ IF ModeCheck(mode) = NoExc
       THEN LET r == StreamInit(mode)
            IN  /\ last' = ApiLast("init", r.exc)
                /\ pc' = IF r.exc = NoExc THEN "stream" ELSE "raised"
                /\ fpos' = r.fpos
                /\ line_num' = r.line_num
                /\ failures' = r.failures
                /\ json_lib' = InitJsonLib(impl, mode, json_lib_arg, JSON)
       ELSE /\ last' = ApiLast("init", ModeCheck(mode))
            /\ pc' = "raised"
            /\ UNCHANGED <<fpos, line_num, failures, json_lib>>
    /\ UNCHANGED <<config, args, JSON, conc, flushed, content, fclosed, closed, yields, written, chunks,
                   wfailed, calls, result>>

\* `return [line for line in Reader(f, **kwargs)]` on a file that is closed
\* or not: the Reader is made, then emptied into a list.
LoadBody(fcl, op) ==
    \E i \in {ReaderInit(impl, content, fcl, skip_failures, skip_empty, skip_lines)} :
    \E d \in {IF i.exc # NoExc
              THEN [fpos |-> i.fpos, line_num |-> i.line_num, failures |-> i.failures,
                    exc |-> i.exc, list |-> <<>>]
              ELSE Drain(impl, content, i.fpos, fcl, i.line_num, i.failures,
                         skip_failures, skip_empty)} :
        /\ fpos' = d.fpos
        /\ line_num' = d.line_num
        /\ failures' = d.failures
        /\ result' = d.list
        /\ fclosed' = fcl
        /\ last' = ApiLast(op, d.exc)
        /\ pc' = IF d.exc = NoExc THEN (IF pc = "dumped" THEN "reloaded" ELSE "loaded")
                 ELSE IF d.exc = NoReturn THEN "hung" ELSE "raised"
        /\ UNCHANGED <<config, args, codec, conc, flushed, content, closed, yields, written, chunks, wfailed,
                       calls>>

\* load(f, **kwargs)
Load ==
    /\ pc = "call" /\ mode = "r" /\ source = "file"
    /\ LoadBody(fclosed, "load")

\* loads(string, **kwargs): Reader.from_string puts the string into a new
\* StringIO.  The string is the text of the file, or what dumps returned.
Loads ==
    /\ \/ pc = "call" /\ mode = "r" /\ source = "file"
       \/ pc = "dumped"
    /\ LoadBody(FALSE, "loads")

\* Variant of dump that closes the file when it is done, as a `with` block
\* around the writer would.
Dump_Closing ==
    /\ pc = "call" /\ mode = "w" /\ source = "file"
    /\ LET w == WriteAll(impl, content, fclosed, 0, 0, skip_failures, delimiter, line_list)
       IN  /\ content' = w.content
           /\ line_num' = w.line_num
           /\ failures' = w.failures
           /\ written' = w.written
           /\ chunks' = w.out
           /\ wfailed' = w.nfalse
           /\ last' = [op |-> "dump", kind |-> IF w.exc = NoExc THEN "true" ELSE "raise",
                       val |-> NoneVal, exc |-> w.exc, at |-> -1]
           /\ pc' = IF w.exc = NoExc THEN "returned" ELSE "raised"
    /\ fclosed' = TRUE
    /\ UNCHANGED <<config, args, codec, conc, flushed, fpos, closed, yields, calls, result>>

\* dump(line_list, f, **kwargs): a Writer is made on f, every line is
\* written, True is returned.  Nothing closes f.
Dump ==
    /\ pc = "call" /\ mode = "w" /\ source = "file"
    /\ LET w == WriteAll(impl, content, fclosed, 0, 0, skip_failures, delimiter, line_list)
       IN  /\ content' = w.content
           /\ line_num' = w.line_num
           /\ failures' = w.failures
           /\ written' = w.written
           /\ chunks' = w.out
           /\ wfailed' = w.nfalse
           /\ last' = [op |-> "dump", kind |-> IF w.exc = NoExc THEN "true" ELSE "raise",
                       val |-> NoneVal, exc |-> w.exc, at |-> -1]
           /\ pc' = IF w.exc = NoExc THEN "returned" ELSE "raised"
    /\ UNCHANGED <<config, args, codec, conc, flushed, fpos, fclosed, closed, yields, calls, result>>

\* dumps(line_list, **kwargs): the same on a new StringIO, whose text is
\* read from its start and returned; content is that text from here on.
Dumps ==
    /\ pc = "call" /\ mode = "w" /\ source = "file"
    /\ LET w == WriteAll(impl, <<>>, FALSE, 0, 0, skip_failures, delimiter, line_list)
       IN  /\ content' = w.content
           /\ line_num' = w.line_num
           /\ failures' = w.failures
           /\ written' = w.written
           /\ chunks' = w.out
           /\ wfailed' = w.nfalse
           /\ last' = ApiLast("dumps", w.exc)
           /\ pc' = IF w.exc = NoExc THEN "dumped" ELSE "raised"
    /\ fclosed' = FALSE
    /\ UNCHANGED <<config, args, codec, conc, flushed, fpos, closed, yields, calls, result>>

\* next() on the Reader or stream the call returned.
ApiRead == pc = "stream" /\ Read

ApiNext ==
    \/ Open
    \/ Construct
    \/ Load
    \/ Loads
    \/ Dump
    \/ Dumps
    \/ ApiRead

SpecApi == ApiInit /\ [][ApiNext]_vars

\* ---------------------------------------------------------------- flushing
\* A Writer in use on something that can be flushed or cannot, while text is
\* written, flushed and the stream closed.
FlushInit ==
    /\ StreamState
    /\ mode \in {"w", "a"}
    /\ source \in {"file", "obj"}
    /\ Defaults
    /\ json_lib = DefaultJSON

FlushNext ==
    \/ \E v \in WriteValues : Write(v)
    \/ Flush
    \/ Close

SpecFlush == FlushInit /\ [][FlushNext]_vars

\* ----------------------------------------------------- a Reader of its own
\* A legacy Reader given a file, skip_lines, fail_val and empty_val: it is
\* constructed, then next() is called on it.
ReaderCallInit ==
    /\ CallState
    /\ mode = "r" /\ source = "file"
    /\ fail_val \in FailVals
    /\ empty_val \in EmptyVals
    /\ DefaultCodec
    /\ OneCaller

ReaderCallNext ==
    \/ Construct
    \/ ApiRead

SpecReader == ReaderCallInit /\ [][ReaderCallNext]_vars

\* ----------------------------------------------------- two callers of next
\* Two threads call next() on one Reader of deprecated.py.  The interpreter
\* switches threads between bytecodes: `self._line_num += 1` and
\* `self._failures += 1` are a read of the attribute followed by a write of
\* the sum, next(f) and loads() are single calls.  With serial the callers
\* take turns, a call starting only when no other is under way.
ThreadsInit ==
    /\ StreamState
    /\ impl = "deprecated" /\ mode = "r" /\ source = "file"
    /\ DefaultVals
    /\ DefaultCodec
    /\ json_lib = DefaultJSON
    /\ serial \in BOOLEAN
    /\ lock = 0
    /\ th = [t \in Threads |-> Idle]

\* What a thread step leaves alone.
held == <<config, args, codec, flushed, pc, result, content, fclosed, closed, written,
          chunks, wfailed, serial>>

\* Variant of the except clause that leaves the count as it is.
CountFailure_Forget(n) == n

\* `self._failures += 1`: the sum that is stored, n being the value read.
CountFailure(n) == n + 1

\* A thread enters next().
T_Call(t) ==
    /\ th[t].pc = "idle"
    /\ calls < MaxCalls
    /\ serial => lock = 0
    /\ calls' = calls + 1
    /\ lock' = IF serial THEN t ELSE lock
    /\ th' = [th EXCEPT ![t].pc = "readline"]
    /\ UNCHANGED <<held, fpos, failures, line_num, last, yields>>

\* _readline, `self._line_num += 1`: the attribute is read.
T_LoadLineNum(t) ==
    /\ th[t].pc = "readline"
    /\ th' = [th EXCEPT ![t].pc = "line_num", ![t].reg = line_num]
    /\ UNCHANGED <<held, lock, calls, fpos, failures, line_num, last, yields>>

\* _readline, `self._line_num += 1`: the sum is written.
T_StoreLineNum(t) ==
    /\ th[t].pc = "line_num"
    /\ line_num' = th[t].reg + 1
    /\ th' = [th EXCEPT ![t].pc = "pull"]
    /\ UNCHANGED <<held, lock, calls, fpos, failures, last, yields>>

\* The call of thread t ends: it returns a value or raises.
T_End(t, kind, val, exc, at) ==
    /\ th' = [th EXCEPT ![t] = Idle]
    /\ lock' = 0
    /\ last' = [op |-> "read", kind |-> kind, val |-> val, exc |-> exc, at |-> at]
    /\ yields' = IF kind = "value" THEN Append(yields, val) ELSE yields

\* _readline, `next(self._f).strip()`: StopIteration leaves next(), it is
\* not a ValueError.
T_Pull(t) ==
    /\ th[t].pc = "pull"
    /\ IF fpos >= Len(content)
       THEN /\ T_End(t, "raise", NoneVal, StopIteration, -1)
            /\ UNCHANGED fpos
       ELSE /\ fpos' = FileNext(content, fpos).end
            /\ th' = [th EXCEPT ![t].pc = "row",
                                ![t].row = Strip(FileNext(content, fpos).line)]
            /\ UNCHANGED <<lock, last, yields>>
    /\ UNCHANGED <<held, calls, failures, line_num>>

\* The rest of the try block: an empty row is skipped or reported, another
\* is decoded.
T_Decode(t) ==
    /\ th[t].pc = "row"
    /\ IF th[t].row = <<>>
       THEN IF skip_empty
            THEN /\ th' = [th EXCEPT ![t].pc = "readline"]
                 /\ UNCHANGED <<lock, last, yields>>
            ELSE T_End(t, "value", empty_val, NoExc, -1)
       ELSE IF loads(th[t].row).ok
       THEN T_End(t, "value", loads(th[t].row).val, NoExc, -1)
       ELSE /\ th' = [th EXCEPT ![t].pc = "except"]
            /\ UNCHANGED <<lock, last, yields>>
    /\ UNCHANGED <<held, calls, fpos, failures, line_num>>

\* The except clause, `self._failures += 1`: the attribute is read.
T_LoadFailures(t) ==
    /\ th[t].pc = "except"
    /\ th' = [th EXCEPT ![t].pc = "failures", ![t].reg = failures]
    /\ UNCHANGED <<held, lock, calls, fpos, failures, line_num, last, yields>>

\* The except clause, `self._failures += 1`: the sum is written; then the
\* error is raised again or fail_val returned.
T_StoreFailures(t) ==
    /\ th[t].pc = "failures"
    /\ failures' = CountFailure(th[t].reg)
    /\ IF skip_failures
       THEN T_End(t, "value", fail_val, NoExc, -1)
       ELSE T_End(t, "raise", NoneVal, DecodeError, -1)
    /\ UNCHANGED <<held, calls, fpos, line_num>>

ThreadsNext ==
    \E t \in Threads :
        \/ T_Call(t)
        \/ T_LoadLineNum(t)
        \/ T_StoreLineNum(t)
        \/ T_Pull(t)
        \/ T_Decode(t)
        \/ T_LoadFailures(t)
        \/ T_StoreFailures(t)

SpecThreads == ThreadsInit /\ [][ThreadsNext]_vars

\* ------------------------------------------------------ the JSON library
\* `newlinejson.core.JSON = __import__(name)`, as the --json option of the
\* command line does it: the module-level JSON names another library.
SetJSON(l) ==
    /\ l # JSON
    /\ JSON' = l
    /\ UNCHANGED <<config, args, json_lib, conc, flushed, pc, result, content, fpos,
                   fclosed, closed, failures, line_num, last, yields, written, chunks,
                   wfailed, calls>>

\* write() on the Writer the constructor returned.
ApiWrite(v) == pc = "stream" /\ Write(v)

\* A module as imported, and a Reader or Writer about to be made on an open
\* file of one record, with or without a json_lib argument.
CodecInit ==
    /\ CallState
    /\ source = "file" /\ mode \in Modes /\ ~fclosed /\ skip_lines = 0
    /\ content = dumps(Rec(1)).text \o LineSep /\ line_list = <<>>
    /\ DefaultVals
    /\ OneCaller
    /\ JSON = DefaultJSON
    /\ json_lib_arg \in {NoLib} \cup Libraries

CodecNext ==
    \/ \E l \in Libraries : SetJSON(l)
    \/ Construct
    \/ ApiRead
    \/ \E v \in WriteValues : ApiWrite(v)

SpecCodec == CodecInit /\ [][CodecNext]_vars

\* ------------------------------------------------------- reading the state
\* The step is a next() call / a write() call on the stream.
ReadStep == calls' = calls + 1 /\ last'.op = "read"
WriteStep == calls' = calls + 1 /\ last'.op = "write"

\* The line of text c that starts after offset p.
LineAt(c, p) == FileNext(c, p)
Blank(l) == Strip(l) = <<>>
Decodable(l) == ~Blank(l) /\ loads(Strip(l)).ok
Malformed(l) == ~Blank(l) /\ ~loads(Strip(l)).ok

\* The offsets at which the lines of text c start, in order.
RECURSIVE LineStarts(_, _)
LineStarts(c, p) ==
    IF p >= Len(c) THEN <<>> ELSE <<p>> \o LineStarts(c, LineAt(c, p).end)
NumLines(c) == Len(LineStarts(c, 0))
NumUndecodable(c) ==
    Cardinality({i \in 1..NumLines(c) : ~loads(Strip(LineAt(c, LineStarts(c, 0)[i]).line)).ok})
NoBlankLines(c) ==
    \A i \in 1..NumLines(c) : ~Blank(LineAt(c, LineStarts(c, 0)[i]).line)

\* The offset of the line a next() call at offset p hands to the decoder: the
\* line at p, or with skip_empty the first non-blank line from p on; -1 when
\* there is none.
RECURSIVE Target(_, _, _)
Target(c, p, se) ==
    IF p >= Len(c) THEN -1
    ELSE IF se /\ Blank(LineAt(c, p).line) THEN Target(c, LineAt(c, p).end, se)
    ELSE p

\* From offset p on: the number of malformed lines before the first decodable
\* line, and the offset of that line (-1 when the text ends first).
RECURSIVE SkipRun(_, _)
SkipRun(c, p) ==
    IF p >= Len(c) THEN [n |-> 0, at |-> -1]
    ELSE IF Decodable(LineAt(c, p).line) THEN [n |-> 0, at |-> p]
    ELSE LET r == SkipRun(c, LineAt(c, p).end)
         IN  [n |-> r.n + (IF Malformed(LineAt(c, p).line) THEN 1 ELSE 0), at |-> r.at]

\* Text c cut at every occurrence of delimiter d: the pieces that end with d
\* (without it), and what follows the last d.
RECURSIVE SplitLines(_, _, _)
SplitLines(c, d, cur) ==
    IF c = <<>> THEN [lines |-> <<>>, rest |-> cur]
    ELSE IF Len(c) >= Len(d) /\ SubSeq(c, 1, Len(d)) = d
    THEN LET r == SplitLines(SubSeq(c, Len(d) + 1, Len(c)), d, <<>>)
         IN  [lines |-> <<cur>> \o r.lines, rest |-> r.rest]
    ELSE SplitLines(Tail(c), d, Append(cur, Head(c)))

\* Every value of the list can be encoded.
AllEncodable(ls) == \A i \in 1..Len(ls) : dumps(ls[i]).ok
\* Every line of text c decodes to a record.
AllDecodable(c) ==
    \A i \in 1..NumLines(c) : Decodable(LineAt(c, LineStarts(c, 0)[i]).line)
\* The records of the lines of text c after the first s lines.
RecordsAfter(c, s) ==
    [i \in 1..(NumLines(c) - s) |->
        loads(Strip(LineAt(c, LineStarts(c, 0)[s + i]).line)).val]
\* The number of malformed lines of text c that start before offset p.
MalformedBefore(c, p) ==
    Cardinality({i \in 1..NumLines(c) :
                    /\ LineStarts(c, 0)[i] < p
                    /\ Malformed(LineAt(c, LineStarts(c, 0)[i]).line)})
\* The step is the call of a constructor.
ConstructStep == pc = "call" /\ last'.op = "init"

\* The values of list ls that can be encoded, and its longest beginning made
\* of such values.
Encodable(ls) == SelectSeq(ls, LAMBDA v : dumps(v).ok)
RECURSIVE EncodablePrefix(_)
EncodablePrefix(ls) ==
    IF ls = <<>> \/ ~dumps(Head(ls)).ok THEN <<>>
    ELSE <<Head(ls)>> \o EncodablePrefix(Tail(ls))
\* The encodings of the values of ls, each followed by delimiter d.
RECURSIVE Encoded(_, _)
Encoded(ls, d) ==
    IF ls = <<>> THEN <<>> ELSE dumps(Head(ls)).text \o d \o Encoded(Tail(ls), d)
\* What a reader returns for line l: empty_val, the record, or fail_val.
ElementOf(l) ==
    IF Blank(l) THEN empty_val
    ELSE IF loads(Strip(l)).ok THEN loads(Strip(l)).val ELSE fail_val
\* The offsets of the lines of text c a reader returns a value for: all of
\* them, or with skip_empty the ones that are not blank.
KeptLines(c, se) ==
    SelectSeq(LineStarts(c, 0), LAMBDA q : ~se \/ ~Blank(LineAt(c, q).line))
\* load or loads has returned its list.
Loaded == last.op \in {"load", "loads"} /\ pc \in {"loaded", "reloaded"}

\* ------------------------------------------------------------------ claims

\* C1: reading a source of n lines, k of them not decodable, to exhaustion
\* with skip_failures=True yields exactly n-k values and leaves failures = k
\* (stated for the sources without blank lines, as in the claim's example).
C1_FailureCounting ==
    (/\ impl = "deprecated" /\ mode = "r" /\ skip_failures
     /\ NoBlankLines(content)
     /\ last.op = "read" /\ last.exc = StopIteration)
    => /\ Len(yields) = NumLines(content) - NumUndecodable(content)
       /\ failures = NumUndecodable(content)

\* C2: with skip_failures=False a next() call whose line is malformed raises
\* the decode error of that line, adds exactly one failure and leaves the
\* file after the line; the next next() call goes on with the following
\* line: it returns its record when it is decodable and ends the iteration
\* when no line is left.
C2_NonSkipPropagation ==
    [][(/\ ReadStep /\ impl = "deprecated" /\ mode = "r"
        /\ ~closed /\ ~fclosed /\ ~skip_failures)
       => LET a == Target(content, fpos, skip_empty)
          IN  /\ (a # -1 /\ Malformed(LineAt(content, a).line))
                 => /\ last'.kind = "raise" /\ last'.exc = DecodeError
                    /\ last'.at = a
                    /\ failures' = failures + 1
                    /\ fpos' = LineAt(content, a).end
              /\ (last.op = "read" /\ last.exc = DecodeError)
                 => /\ fpos = LineAt(content, last.at).end
                    /\ a = -1 => last'.exc = StopIteration
                    /\ a # -1 => /\ a >= fpos
                                 /\ last'.at = a
                                 /\ Decodable(LineAt(content, a).line)
                                    => /\ last'.kind = "value"
                                       /\ last'.val = loads(Strip(LineAt(content, a).line)).val
                                       /\ failures' = failures
      ]_vars

\* C2 witness: the first call raised on a malformed line, the second one
\* returned the record of the line after it.
C2_Witness ==
    /\ impl = "deprecated" /\ mode = "r" /\ ~skip_failures
    /\ failures = 1 /\ calls = 2
    /\ last.op = "read" /\ last.kind = "value" /\ last.val \in Records
    /\ yields = <<last.val>>
    /\ Malformed(LineAt(content, 0).line)

\* C3: with skip_failures=True one next() call consumes the malformed lines
\* before the next decodable line, counts each of them once and returns the
\* value of that line, or ends the iteration when the source runs out; it
\* never raises and never returns a value standing for a failed line.
C3_SkipRunInOneCall ==
    [][(/\ ReadStep /\ impl = "deprecated" /\ mode = "r"
        /\ ~closed /\ ~fclosed /\ skip_failures /\ skip_empty)
       => LET r == SkipRun(content, fpos)
          IN  /\ failures' = failures + r.n
              /\ r.at = -1 => /\ last'.kind = "raise" /\ last'.exc = StopIteration
                              /\ fpos' = Len(content)
              /\ r.at # -1 => /\ last'.kind = "value"
                              /\ last'.val = loads(Strip(LineAt(content, r.at).line)).val
                              /\ fpos' = LineAt(content, r.at).end
      ]_vars

\* C4: failures is 0 on a new Reader or Writer and no call ever lowers it.
C4_FailuresMonotonic ==
    /\ failures = 0
    /\ [][failures' >= failures]_vars

\* C4 witness: failures were counted and calls of other kinds followed.
C4_Witness ==
    /\ failures = 2
    /\ last.op = "close"
    /\ written # <<>>

\* C5: after close() the stream stays closed, and every next() or write()
\* call is refused with InvalidState without consuming a line, appending
\* text or counting a failure.
C5_ClosedIsFinal ==
    [][closed
       => /\ closed'
          /\ fpos' = fpos /\ content' = content /\ chunks' = chunks
          /\ (ReadStep \/ WriteStep)
             => /\ last'.kind = "raise" /\ last'.exc = InvalidState
                /\ failures' = failures
      ]_vars

\* C5 witness: a write on a closed stream was refused while the value was
\* encodable, and a record written before the close is still the content.
C5_Witness ==
    /\ closed /\ mode = "w"
    /\ last.op = "write" /\ last.exc = InvalidState /\ last.val \in Records
    /\ Len(written) = 1 /\ wfailed = 1

\* C6: next() on a stream opened for writing and write() on a stream opened
\* for reading fail whatever skip_failures is, and leave failures, the file
\* offset and the text of the file unchanged.
C6_ModeClash ==
    [][((ReadStep /\ mode # "r") \/ (WriteStep /\ mode = "r"))
       => /\ last'.kind = "raise" /\ last'.exc # NoExc
          /\ failures' = failures /\ fpos' = fpos
          /\ content' = content /\ chunks' = chunks
      ]_vars

\* C6 witness: with skip_failures=True a next() call on a write stream that
\* already holds a line was refused.
C6_Witness ==
    /\ mode = "w" /\ skip_failures /\ ~closed
    /\ last.op = "read" /\ last.kind = "raise"
    /\ content # <<>> /\ fpos = 0

\* C7: when dumps cannot encode the value, write() adds exactly one failure,
\* hands nothing to the file, and raises the encode error (skip_failures
\* False) or returns False (skip_failures True).
C7_EncodeFailure ==
    [][(/\ WriteStep /\ impl = "deprecated" /\ mode \in {"w", "a"} /\ ~closed
        /\ ~dumps(last'.val).ok)
       => /\ failures' = failures + 1
          /\ content' = content /\ chunks' = chunks
          /\ skip_failures => last'.kind = "false"
          /\ ~skip_failures => (last'.kind = "raise" /\ last'.exc = EncodeError)
      ]_vars

\* C7 witness: an unserialisable value was refused with False after a record
\* had been written.
C7_Witness ==
    /\ impl = "deprecated" /\ skip_failures
    /\ last.op = "write" /\ last.kind = "false" /\ last.val = Unserializable
    /\ failures = 1 /\ Len(written) = 1

\* C8: an error of the file object itself (here: the file is closed) in a
\* next() or write() call reaches the caller as raised, also with
\* skip_failures=True.
C8_IOErrorsPropagate ==
    [][(/\ (ReadStep \/ WriteStep)
        /\ StreamGuard(last'.op, mode, closed) = NoExc
        /\ fclosed
        /\ WriteStep => dumps(last'.val).ok)
       => /\ last'.kind = "raise"
          /\ last'.exc = ClosedFileError
      ]_vars

\* C9: a write() that changes the file hands it encode(value) followed by
\* the delimiter in exactly one f.write call, so the text after any number
\* of f.write calls ends with a delimiter, and the call returns True.
C9_OneWritePerRecord ==
    [][(WriteStep /\ (content' # content \/ chunks' # chunks \/ last'.kind = "true"))
       => /\ dumps(last'.val).ok
          /\ chunks' = Append(chunks, dumps(last'.val).text \o delimiter)
          /\ content' = content \o dumps(last'.val).text \o delimiter
          /\ last'.kind = "true"
      ]_vars

\* C9 witness: two records written with the custom delimiter.
C9_Witness ==
    /\ delimiter = CustomDelim
    /\ Len(chunks) = 2 /\ Len(written) = 2
    /\ last.op = "write" /\ last.kind = "true"

\* C10: on a file that starts empty, after n write() calls none of which
\* failed the file holds exactly n delimiter-terminated lines, the encoded
\* records in the order of the calls.
C10_LineCount ==
    (mode = "w" /\ wfailed = 0)
    => LET s == SplitLines(content, delimiter, <<>>)
       IN  /\ s.rest = <<>>
           /\ Len(s.lines) = Len(written)
           /\ \A i \in 1..Len(written) : s.lines[i] = dumps(written[i]).text

\* C10 witness: three records, not all equal, written without a failure.
C10_Witness ==
    /\ mode = "w" /\ wfailed = 0 /\ impl = "core"
    /\ Len(written) = 3 /\ written[1] # written[3]

C12_ConstructionValidates ==
    (last.op = "init" /\ (mode \notin Modes \/ skip_lines < 0))
    => /\ pc = "raised" /\ last.exc = InvalidArgument
       /\ fpos = 0 /\ line_num = 0

\* C13: a Reader made with skip_lines=s on an open file of n well-formed
\* lines, s <= n, is made without an exception and yields the records of the
\* lines s+1..n in order: what it has yielded is always their beginning, and
\* all of them when the iteration has ended.
C13_SkipLines ==
    (/\ last.op \in {"init", "read"} /\ mode = "r" /\ ~fclosed
     /\ AllDecodable(content) /\ skip_lines \in 0..NumLines(content))
    => LET e == RecordsAfter(content, skip_lines)
       IN  /\ pc = "stream"
           /\ Len(yields) <= Len(e)
           /\ yields = SubSeq(e, 1, Len(yields))
           /\ last.exc = StopIteration => yields = e

\* C13 witness: one of two lines was skipped, the record of the other one was
\* yielded and the iteration has ended.
C13_Witness ==
    /\ pc = "stream" /\ mode = "r" /\ ~fclosed /\ impl = "core"
    /\ skip_lines = 1 /\ NumLines(content) = 2 /\ AllDecodable(content)
    /\ last.op = "read" /\ last.exc = StopIteration
    /\ Len(yields) = 1

\* C14 as stated, for the Reader of either module: the lines skip_lines
\* discards are decoded, so the malformed ones among them are counted, and
\* with skip_failures=False the first of them makes the constructor raise
\* the decode error.
C14_DiscardsDecodeAnyReader ==
    [][(ConstructStep /\ mode = "r" /\ ~fclosed /\ skip_lines >= 1)
       => /\ failures' = MalformedBefore(content, fpos')
          /\ (~skip_failures /\ MalformedBefore(content, fpos') > 0)
             => (pc' = "raised" /\ last'.exc = DecodeError)
      ]_vars

\* C14: in the Reader of deprecated.py and newlinejson.py the lines
\* skip_lines discards are decoded: the malformed ones among them are
\* counted, and with skip_failures=False the first of them makes the
\* constructor raise the decode error.
C14_DiscardsDecode ==
    [][(ConstructStep /\ impl = "deprecated" /\ mode = "r" /\ ~fclosed /\ skip_lines >= 1)
       => /\ failures' = MalformedBefore(content, fpos')
          /\ (~skip_failures /\ MalformedBefore(content, fpos') > 0)
             => (pc' = "raised" /\ last'.exc = DecodeError /\ failures' = 1)
      ]_vars

\* C14 witness: the constructor raised the decode error of the second line
\* while discarding two lines.
C14_Witness ==
    /\ impl = "deprecated" /\ mode = "r" /\ ~fclosed /\ ~skip_failures
    /\ skip_lines = 2
    /\ last.op = "init" /\ pc = "raised" /\ last.exc = DecodeError
    /\ failures = 1 /\ fpos > LineAt(content, 0).end
    /\ Decodable(LineAt(content, 0).line)

\* C15: a next() call on an open file with no line left raises StopIteration
\* and counts no failure, whatever skip_failures is; StopIteration is raised
\* only when every line has been consumed and every other call consumes at
\* least one line, and a `for` loop over the reader comes to its end.
C15_EndOfStream ==
    /\ [][(ReadStep /\ mode = "r" /\ ~closed /\ ~fclosed)
          => /\ fpos >= Len(content)
                => /\ last'.kind = "raise" /\ last'.exc = StopIteration
                   /\ failures' = failures /\ fpos' = fpos
             /\ last'.exc = StopIteration
                => (fpos' = Len(content) /\ failures' = failures)
             /\ last'.exc # StopIteration => fpos' > fpos
         ]_vars
    /\ <>(last.op = "read" /\ last.kind = "raise")

\* C15 witness: with skip_failures=True two lines, one of them malformed,
\* were consumed by two calls and the third call ended the iteration.
C15_Witness ==
    /\ mode = "r" /\ skip_failures /\ ~fclosed
    /\ NumLines(content) = 2 /\ NoBlankLines(content)
    /\ last.op = "read" /\ last.exc = StopIteration
    /\ fpos = Len(content) /\ calls = 3 /\ failures = 1

\* C16: the file offset of a reader never goes back, also when a line fails
\* to decode; the line a next() call decodes starts at or after the offset
\* the call found and ends at or before the offset it leaves, so no line is
\* pulled twice; the values are yielded in the order of the calls; and
\* iter(reader) changes neither the offset nor what was yielded.
C16_ForwardOnly ==
    [][/\ fpos' >= fpos
       /\ (ReadStep /\ last'.at # -1)
          => /\ last'.at >= fpos
             /\ fpos' >= LineAt(content, last'.at).end
       /\ ReadStep
          => yields' = IF last'.kind = "value" THEN Append(yields, last'.val) ELSE yields
       /\ last'.op = "iter"
          => (fpos' = fpos /\ yields' = yields /\ line_num' = line_num)
      ]_vars

\* C16 witness: iter() was called on a reader that had yielded the record of
\* the first line and has lines left.
C16_Witness ==
    /\ mode = "r" /\ ~closed /\ ~fclosed
    /\ last.op = "iter"
    /\ Len(yields) = 1 /\ yields[1] \in Records
    /\ fpos = LineAt(content, 0).end /\ fpos < Len(content)

\* C17: close() never raises and leaves the stream and its file closed;
\* the first call reports that it closed them, every later call does
\* nothing at all; this holds on a stream that was never read or written.
C17_CloseIdempotent ==
    [][(pc = "stream" /\ last'.op = "close")
       => /\ closed' /\ fclosed'
          /\ last'.exc = NoExc /\ last'.kind \in {"closed", "noop"}
          /\ ~closed => last'.kind = "closed"
          /\ closed => /\ last'.kind = "noop"
                       /\ UNCHANGED <<content, fpos, fclosed, failures, line_num, yields,
                                      written, chunks, wfailed, calls>>
      ]_vars

\* C17 witness: a stream that was never read or written was closed twice.
C17_Witness ==
    /\ closed /\ fclosed /\ calls = 0
    /\ last.op = "close" /\ last.kind = "noop"

\* C18 as stated: when dump is over, with True or with an exception, the
\* file it wrote to is closed.
C18_DumpCloses == last.op = "dump" => fclosed

\* C18: dump writes the records in order through one Writer and returns
\* True, or raises at the first write that raises, the records before it
\* being written; it never closes the file, which is as open after the call
\* as it was before, whether dump returned or raised.
C18_DumpLeavesOpen ==
    [][(pc = "call" /\ last'.op = "dump")
       => /\ fclosed' = fclosed /\ closed' = closed
          /\ ~fclosed
             => /\ written' = IF skip_failures THEN Encodable(line_list)
                              ELSE EncodablePrefix(line_list)
                /\ content' = content \o Encoded(written', delimiter)
                /\ (skip_failures \/ AllEncodable(line_list))
                   => (pc' = "returned" /\ last'.kind = "true")
                /\ (~skip_failures /\ ~AllEncodable(line_list))
                   => (pc' = "raised" /\ last'.exc = EncodeError)
      ]_vars

\* C18 witness: dump raised on the second of two values after writing the
\* first, and the file is still open.
C18_Witness ==
    /\ last.op = "dump" /\ pc = "raised" /\ last.exc = EncodeError
    /\ ~fclosed /\ ~closed
    /\ Len(line_list) = 2 /\ Len(written) = 1
    /\ content = dumps(line_list[1]).text \o delimiter

C20_OpenRejects ==
    [][(pc = "call" /\ last'.op = "open")
       => /\ (source = "int" \/ mode \notin Modes)
             => /\ pc' = "raised"
                /\ last'.exc \in {UnsupportedSource, InvalidArgument}
                /\ fpos' = fpos /\ line_num' = line_num /\ failures' = failures
          /\ (source = "int" /\ mode \in Modes) => last'.exc = UnsupportedSource
          /\ (source # "int" /\ mode \notin Modes) => last'.exc = InvalidArgument
      ]_vars

\* C20 witness: open(1) was refused with UnsupportedSource.
C20_Witness ==
    /\ last.op = "open" /\ pc = "raised"
    /\ source = "int" /\ mode = "r"
    /\ last.exc = UnsupportedSource

\* C21: flush pushes all of the text out when the wrapped object can be
\* flushed (and is open) and otherwise changes nothing; it raises nothing and
\* leaves closed, failures and the text written so far as they were; a
\* second flush right after it changes nothing more; and a write call
\* pushes nothing out by itself.
C21_Flush ==
    [][/\ Flush
          => /\ last'.kind = "none" /\ last'.exc = NoExc
             /\ closed' = closed /\ fclosed' = fclosed
             /\ failures' = failures
             /\ content' = content /\ chunks' = chunks /\ written' = written
             /\ (Flushable(source) /\ ~fclosed) => flushed' = Len(content)
             /\ ~Flushable(source) => flushed' = flushed
             /\ StreamFlush(source, fclosed', content', flushed') = flushed'
       /\ WriteStep => flushed' = flushed
      ]_vars

\* C21 witness: a record was written and then flushed to the open file.
C21_Witness ==
    /\ last.op = "flush" /\ source = "file" /\ ~closed /\ ~fclosed
    /\ Len(written) = 1 /\ flushed = Len(content) /\ Len(content) > 0
    /\ mode = "w"

C23_BlankLines ==
    [][(pc = "stream" /\ ReadStep /\ ~fclosed)
       => LET t == Target(content, fpos, TRUE)
              l == LineAt(content, t).line
          IN  /\ (skip_empty /\ t = -1)
                 => /\ last'.kind = "raise" /\ last'.exc = StopIteration
                    /\ failures' = failures /\ yields' = yields
              /\ (skip_empty /\ t # -1)
                 => /\ last'.at = t
                    /\ fpos' = LineAt(content, t).end
                    /\ Decodable(l)
                       => /\ last'.kind = "value" /\ last'.val = loads(Strip(l)).val
                          /\ failures' = failures
                    /\ Malformed(l)
                       => /\ failures' = failures + (IF impl = "deprecated" THEN 1 ELSE 0)
                          /\ IF skip_failures
                             THEN last'.kind = "value" /\ last'.val = fail_val
                             ELSE last'.kind = "raise" /\ last'.exc = DecodeError
              /\ (~skip_empty /\ fpos < Len(content) /\ Blank(LineAt(content, fpos).line))
                 => /\ last'.kind = "value" /\ last'.val = empty_val
                    /\ yields' = Append(yields, empty_val)
                    /\ fpos' = LineAt(content, fpos).end
                    /\ failures' = failures
      ]_vars

\* C23 witness: with skip_empty=True and empty_val='' the first call passed
\* over a blank first line and returned the record of the second line.
C23_Witness ==
    /\ pc = "stream" /\ last.op = "read" /\ calls = 1 /\ skip_lines = 0
    /\ skip_empty /\ empty_val = EmptyStr /\ ~fclosed
    /\ NumLines(content) = 2 /\ Blank(LineAt(content, 0).line)
    /\ last.kind = "value" /\ last.val \in Records /\ yields = <<last.val>>
    /\ failures = 0

\* No thread is inside next().
Quiescent == \A t \in Threads : th[t].pc = "idle"

\* C24: next() takes no lock.  Whenever no call is under way, failures is at
\* most the number of malformed lines consumed, and it equals that number
\* when the callers took turns; when they did not, increments can be lost
\* (the witness).
C24_UnsynchronizedCounter ==
    Quiescent
    => /\ failures <= MalformedBefore(content, fpos)
       /\ serial => failures = MalformedBefore(content, fpos)

\* C24 witness: two threads have consumed two malformed lines without
\* taking turns, and failures is 1.
C24_Witness ==
    /\ Quiescent /\ ~serial
    /\ MalformedBefore(content, fpos) = 2
    /\ failures = 1
    /\ calls = 2

\* C25: a constructor that returns sets json_lib to its json_lib argument
\* when one is given and to the module-level JSON of that moment otherwise,
\* for Readers and Writers alike; no other step changes json_lib, a later
\* assignment to JSON included.
C25_CodecAtConstruction ==
    [][/\ (ConstructStep /\ pc' = "stream")
          => json_lib' = (IF json_lib_arg # NoLib THEN json_lib_arg ELSE JSON)
       /\ ~ConstructStep => json_lib' = json_lib
      ]_vars

\* The number of lines of text c that start before offset p: the lines a
\* file iterator at p has handed out.
LinesBefore(c, p) == Cardinality({i \in 1..NumLines(c) : LineStarts(c, 0)[i] < p})

\* C26: once the constructor of a Reader on an open file has run, and after
\* every next() call, line_num is the number of lines taken from the file,
\* blank and malformed ones included; so a call that finds the file at its
\* end leaves line_num as it was.
C26_LineNumCountsLines ==
    (pc = "stream" /\ last.op \in {"init", "read"} /\ ~fclosed)
    => line_num = LinesBefore(content, fpos)

C28_BulkSkip ==
    [][(pc = "call" /\ last'.op \in {"dump", "dumps"} /\ skip_failures
        /\ (last'.op = "dump" => ~fclosed))
       => /\ last'.exc = NoExc
          /\ written' = Encodable(line_list)
          /\ content' = (IF last'.op = "dump" THEN content ELSE <<>>)
                         \o Encoded(Encodable(line_list), delimiter)
          /\ Len(chunks') = Len(Encodable(line_list))
          /\ last'.op = "dump" => (pc' = "returned" /\ last'.kind = "true")
          /\ last'.op = "dumps" => pc' = "dumped"
      ]_vars

\* C28 witness: dump wrote the second of two values and returned True, the
\* first one cannot be encoded.
C28_Witness ==
    /\ pc = "returned" /\ last.op = "dump" /\ last.kind = "true" /\ skip_failures
    /\ Len(line_list) = 2 /\ line_list[1] = Unserializable /\ line_list[2] \in Records
    /\ written = <<line_list[2]>>
    /\ content = dumps(line_list[2]).text \o delimiter

\* C29: a Reader constructor given an open file and a skip_lines above the
\* number of its lines never returns a Reader.  It raises the StopIteration
\* of the discard that found the file at its end, unless a discard of
\* deprecated.py raised the decode error of a malformed line first
\* (skip_failures=False); the StopIteration adds nothing to failures, which
\* holds the malformed lines that were discarded and is 0 in core.py.
C29_SkipPastEnd ==
    [][(ConstructStep /\ mode = "r" /\ ~fclosed /\ skip_lines > NumLines(content))
       => /\ pc' = "raised" /\ last'.kind = "raise"
          /\ \/ last'.exc = StopIteration
             \/ /\ last'.exc = DecodeError
                /\ impl = "deprecated" /\ ~skip_failures
                /\ MalformedBefore(content, Len(content)) > 0
          /\ last'.exc = StopIteration
             => failures' = (IF impl = "deprecated"
                             THEN MalformedBefore(content, Len(content)) ELSE 0)
      ]_vars

\* C29 witness: Reader of deprecated.py, skip_failures=True, skip_lines=2 on
\* a file of one malformed line: the constructor raised StopIteration with
\* one failure counted, for the malformed line.
C29_Witness ==
    /\ pc = "raised" /\ last.op = "init" /\ last.exc = StopIteration
    /\ impl = "deprecated" /\ skip_failures /\ ~fclosed
    /\ skip_lines = 2 /\ NumLines(content) = 1
    /\ Malformed(LineAt(content, 0).line)
    /\ failures = 1

\* C30: for a Reader made with skip_lines=0, in every state a next() call is
\* made in, Reader.next of core.py and Reader.next of deprecated.py give the
\* same outcome from that state: the same value or the same exception
\* (StopIteration at the end), the same position in the file and the same
\* line_num; the call that is made has that outcome; and only deprecated.py
\* counts, adding at most one failure where core.py adds none.  Both start
\* at the beginning of the file, so the two stay in step call after call.
C30_ReadersAgree ==
    [][(pc = "stream" /\ ReadStep /\ skip_lines = 0)
       => \E d \in {DeprecatedReaderNext(content, fpos, fclosed, line_num, failures,
                                         skip_failures, skip_empty)} :
          \E c \in {CoreReaderNext(content, fpos, fclosed, line_num, failures,
                                   skip_failures, skip_empty)} :
             /\ d.kind = c.kind /\ d.val = c.val /\ d.exc = c.exc
             /\ d.fpos = c.fpos /\ d.line_num = c.line_num
             /\ c.failures = failures
             /\ d.failures \in {failures, failures + 1}
             /\ last'.kind = c.kind /\ last'.val = c.val /\ last'.exc = c.exc
             /\ fpos' = c.fpos /\ line_num' = c.line_num
             /\ calls = 0 => (fpos = 0 /\ line_num = 0)
      ]_vars

\* C30 witness: after two calls on a two-line file whose first line is
\* malformed, the Reader of deprecated.py made with skip_lines=0 has
\* returned fail_val and a record and counted one failure.
C30_Witness ==
    /\ pc = "stream" /\ skip_lines = 0 /\ impl = "deprecated" /\ ~fclosed
    /\ skip_failures /\ calls = 2 /\ last.op = "read"
    /\ Len(yields) = 2 /\ yields[1] = fail_val /\ yields[2] \in Records
    /\ failures = 1

====
